---- MODULE Spec2Model ----
(***************************************************************************)
(* Model of src/app.py, the family-finance Streamlit application.          *)
(*                                                                         *)
(* One Streamlit script run (main) is one atomic step: it reads the sheet, *)
(* renders the entry form, optionally appends the submitted entry and      *)
(* reruns, and renders the monthly report of the selected month.           *)
(*                                                                         *)
(* TLA+ strings are ASCII here, so the Chinese literals of the source are  *)
(* written with the English names the specification gives them:            *)
(*   "支出" Expense, "收入" Income, "薪金" Salary, "其他" Other,           *)
(*   "家庭支出" Household, "個人支出" Personal, "小朋友支出" Children,     *)
(*   "交通費用" Transport, "儲蓄與保險" SavingsInsurance,                  *)
(*   "曦晴" XiQing, "曦朗" XiLang;                                         *)
(*   columns 日期 Date, 成員 Member, 收支類型 Kind, 主類別 MainCategory,   *)
(*   細項 SubCategory, 金額 Amount, 備註 Note.                             *)
(* Amounts are whole numbers of the smallest money unit (the source uses   *)
(* floats; rounding of binary floating point is not modelled).             *)
(***************************************************************************)
EXTENDS Integers, Sequences, FiniteSets, TLC

VARIABLES sheet, base, form, selected_month, df, view, io

vars == <<sheet, base, form, selected_month, df, view, io>>

(***************************************************************************)
(* sheet           the data rows of the Google sheet, in its order         *)
(* base            how many of them were there when the session started    *)
(* form            the selectboxes of the entry tab, as last rendered      *)
(* selected_month  the month selectbox of the report tab                   *)
(* df              the frame of the last run, as that run left it          *)
(* view            what the last run put on the page                       *)
(* io              the last run's calls of the sheet: reads, appends, and  *)
(*                 how append_row ended ("none" when it was not called)    *)
(***************************************************************************)

(***************************************************************************)
(* Bounds of the model.                                                    *)
(***************************************************************************)
\* The sheet holds at most MaxRows data rows.
MaxRows == 2
\* Amounts typed into the number input range over 0..MaxAmount.
MaxAmount == 1

(***************************************************************************)
(* Generic helpers.                                                        *)
(***************************************************************************)
Range(s) == {s[i] : i \in 1..Len(s)}

\* list.index(x), 0-based as in Python; x must occur in s.
Index0(s, x) == (CHOOSE i \in 1..Len(s) : s[i] = x /\ \A j \in 1..(i - 1) : s[j] # x) - 1

IsPrefix(s, t) == Len(s) <= Len(t) /\ \A i \in 1..Len(s) : s[i] = t[i]

(***************************************************************************)
(* Lines 47-60: members and the category taxonomy.                         *)
(***************************************************************************)
MEMBERS == <<"Connie", "Kam", "XiQing", "XiLang">>

\* The options of the radio at line 79, in its order.
TX_TYPES == <<"Expense", "Income">>

\* list(CATEGORIES[tx_type].keys()): dict insertion order.
CategoryKeys(tx_type) ==
    IF tx_type = "Income" THEN <<"Salary", "Other">>
    ELSE IF tx_type = "Expense"
         THEN <<"Household", "Personal", "Children", "Transport", "SavingsInsurance">>
         ELSE <<>>

\* CATEGORIES[tx_type][main_cat]
CATEGORIES(tx_type, main_cat) ==
    IF tx_type = "Income" /\ main_cat = "Salary" THEN <<"MonthlySalary">>
    ELSE IF tx_type = "Income" /\ main_cat = "Other"
         THEN <<"Bonus", "InvestmentReturn", "OtherIncome">>
    ELSE IF tx_type = "Expense" /\ main_cat = "Household"
         THEN <<"Mortgage", "ManagementFee", "Water", "Electricity", "Gas", "Phone",
                "Internet", "Streaming", "Rates", "DomesticHelperSalary",
                "HouseholdSupplies">>
    ELSE IF tx_type = "Expense" /\ main_cat = "Personal"
         THEN <<"Meals", "Shopping", "Entertainment", "PersonalOther">>
    ELSE IF tx_type = "Expense" /\ main_cat = "Children"
         THEN <<"Tuition", "ActivityClasses", "Medical", "OtherFees">>
    ELSE IF tx_type = "Expense" /\ main_cat = "Transport"
         THEN <<"Fare", "EVCharging", "Parking", "TransportOther">>
    ELSE IF tx_type = "Expense" /\ main_cat = "SavingsInsurance"
         THEN <<"Deposit", "Insurance", "TravelFund">>
    ELSE <<>>

\* The triples of the taxonomy.
IsValid(kind, mainCategory, subCategory) ==
    /\ kind \in Range(TX_TYPES)
    /\ mainCategory \in Range(CategoryKeys(kind))
    /\ subCategory \in Range(CATEGORIES(kind, mainCategory))

(***************************************************************************)
(* Dates.  A date string is a sequence of one-character strings; a date    *)
(* object is a record of year, month and day.                              *)
(***************************************************************************)
DigitChars == <<"0", "1", "2", "3", "4", "5", "6", "7", "8", "9">>

IsDigit(c) == c \in Range(DigitChars)

\* int(c) of a digit character.
DigitVal(c) ==
    CASE c = "0" -> 0 [] c = "1" -> 1 [] c = "2" -> 2 [] c = "3" -> 3 [] c = "4" -> 4
      [] c = "5" -> 5 [] c = "6" -> 6 [] c = "7" -> 7 [] c = "8" -> 8 [] c = "9" -> 9

IsLeap(y) == (y % 4 = 0 /\ y % 100 # 0) \/ y % 400 = 0

DaysInMonth(y, m) ==
    IF m \in {4, 6, 9, 11} THEN 30
    ELSE IF m = 2 THEN (IF IsLeap(y) THEN 29 ELSE 28)
    ELSE 31

\* The character of the decimal digit n % 10.
Digit(n) == DigitChars[(n % 10) + 1]

\* Line 97: date.strftime("%Y-%m-%d") (years of four digits).
strftime(date) ==
    << Digit(date.year \div 1000), Digit(date.year \div 100), Digit(date.year \div 10),
       Digit(date.year), "-", Digit(date.month \div 10), Digit(date.month), "-",
       Digit(date.day \div 10), Digit(date.day) >>

\* The strings pd.to_datetime reads as a calendar date: YYYY-MM-DD of a real day.
\* (Other spellings pandas accepts are not among the modelled inputs.)
IsDateString(s) ==
    /\ Len(s) = 10
    /\ s[5] = "-" /\ s[8] = "-"
    /\ \A i \in {1, 2, 3, 4, 6, 7, 9, 10} : IsDigit(s[i])
    /\ LET y == 1000 * DigitVal(s[1]) + 100 * DigitVal(s[2]) + 10 * DigitVal(s[3]) + DigitVal(s[4])
           m == 10 * DigitVal(s[6]) + DigitVal(s[7])
           d == 10 * DigitVal(s[9]) + DigitVal(s[10])
       IN  m \in 1..12 /\ d \in 1..DaysInMonth(y, m)

ParseDate(s) ==
    [year  |-> 1000 * DigitVal(s[1]) + 100 * DigitVal(s[2]) + 10 * DigitVal(s[3]) + DigitVal(s[4]),
     month |-> 10 * DigitVal(s[6]) + DigitVal(s[7]),
     day   |-> 10 * DigitVal(s[9]) + DigitVal(s[10])]

\* A cell of the Date column of the frame: the string read from the sheet, or
\* the Timestamp pd.to_datetime made of it.
StrCell(s) == [tag |-> "str", chars |-> s, year |-> 0, month |-> 0, day |-> 0]

Timestamp(d) == [tag |-> "ts", chars |-> <<>>, year |-> d.year, month |-> d.month, day |-> d.day]

(***************************************************************************)
(* Lines 35-44: the sheet.  A data row of the sheet is the tuple of its    *)
(* seven cells.  The sheet is taken to have its header row (the columns of *)
(* line 38), which get_all_records uses as keys; it is not part of `sheet`.*)
(***************************************************************************)
\* sheet.get_all_records() and pd.DataFrame(data): one frame row per data row,
\* keyed by the header's columns, in the sheet's order; no row is checked.
load_df(sh) ==
    [i \in 1..Len(sh) |->
        [Date |-> StrCell(sh[i][1]), Member |-> sh[i][2], Kind |-> sh[i][3],
         MainCategory |-> sh[i][4], SubCategory |-> sh[i][5], Amount |-> sh[i][6],
         Note |-> sh[i][7]]]

\* A plausible slip: the new row is inserted at the top of the sheet.
save_entry_at_top(sh, entry_list) == <<entry_list>> \o sh

\* sheet.append_row(entry_list)
save_entry(sh, entry_list) == Append(sh, entry_list)

(***************************************************************************)
(* Lines 85-91: the entry form.                                            *)
(***************************************************************************)
\* A plausible slip: the member is not looked at.
default_idx_any_member(tx_type, member) ==
    IF tx_type = "Expense" /\ "Children" \in Range(CategoryKeys(tx_type))
    THEN Index0(CategoryKeys(tx_type), "Children")
    ELSE 0

\* Lines 85-88: the index pre-selected in the main-category selectbox (0-based).
default_idx(tx_type, member) ==
    IF /\ tx_type = "Expense"
       /\ member \in {"XiQing", "XiLang"}
       /\ "Children" \in Range(CategoryKeys(tx_type))
    THEN Index0(CategoryKeys(tx_type), "Children")
    ELSE 0

\* The selectboxes as first rendered for a kind and a member: the main-category
\* at its default index, the sub-category at its first option.
FreshForm(tx_type, member) ==
    LET idx  == default_idx(tx_type, member)
        main == CategoryKeys(tx_type)[idx + 1]
    IN  [tx_type |-> tx_type, member |-> member, default_idx |-> idx,
         main_cat |-> main, sub_cat |-> CATEGORIES(tx_type, main)[1]]

\* The form of a new session: the first option of the radio and of the member box.
InitialForm == FreshForm(TX_TYPES[1], MEMBERS[1])

\* Line 98: the entry built from the form.
Entry(f, date, amount, note) ==
    <<strftime(date), f.member, f.tx_type, f.main_cat, f.sub_cat, amount, note>>

(***************************************************************************)
(* Lines 114-143: the report tab.                                          *)
(***************************************************************************)
RECURSIVE SumAmount(_)
\* Series.sum() of the Amount column of the rows.
SumAmount(rows) == IF rows = <<>> THEN 0 ELSE Head(rows).Amount + SumAmount(Tail(rows))

\* Line 118 raises unless every date string parses.
DatesParse(d) == \A i \in 1..Len(d) : d[i].Date.tag = "ts" \/ IsDateString(d[i].Date.chars)

\* Line 118: df["Date"] = pd.to_datetime(df["Date"]), assigned into the frame.
to_datetime(d) ==
    [i \in 1..Len(d) |->
        IF d[i].Date.tag = "ts" THEN d[i]
        ELSE [d[i] EXCEPT !.Date = Timestamp(ParseDate(d[i].Date.chars))]]

\* A plausible slip: the month and the year 2024 are both compared.
month_filter_with_year(d, month) ==
    SelectSeq(d, LAMBDA r : r.Date.month = month /\ r.Date.year = 2024)

\* Line 122: m_df = df[df["Date"].dt.month == selected_month]
month_filter(d, month) == SelectSeq(d, LAMBDA r : r.Date.month = month)

\* Lines 127-133: the three metrics.
metrics(m_df) ==
    LET inc == SumAmount(SelectSeq(m_df, LAMBDA r : r.Kind = "Income"))
        exp == SumAmount(SelectSeq(m_df, LAMBDA r : r.Kind = "Expense"))
    IN  [totalIncome |-> inc, totalExpense |-> exp, balance |-> inc - exp]

\* Line 138: the sunburst's leaves, the amounts summed per (main, sub).
sunburst(exp_df) ==
    { [MainCategory |-> r.MainCategory, SubCategory |-> r.SubCategory,
       Amount |-> SumAmount(SelectSeq(exp_df, LAMBDA q :
                     q.MainCategory = r.MainCategory /\ q.SubCategory = r.SubCategory))]
      : r \in Range(exp_df) }

\* A plausible slip: a group's amount is summed over its (main, sub) only.
summary_ignoring_member(exp_df) ==
    { [MainCategory |-> r.MainCategory, SubCategory |-> r.SubCategory, Member |-> r.Member,
       Amount |-> SumAmount(SelectSeq(exp_df, LAMBDA q :
                     q.MainCategory = r.MainCategory /\ q.SubCategory = r.SubCategory))]
      : r \in Range(exp_df) }

\* Line 142: groupby([main, sub, member])[Amount].sum(), as a set of rows.
summary(exp_df) ==
    { [MainCategory |-> r.MainCategory, SubCategory |-> r.SubCategory, Member |-> r.Member,
       Amount |-> SumAmount(SelectSeq(exp_df, LAMBDA q :
                     /\ q.MainCategory = r.MainCategory
                     /\ q.SubCategory = r.SubCategory
                     /\ q.Member = r.Member))]
      : r \in Range(exp_df) }

\* What one script run has put on the page.
BlankView ==
    [error |-> "none", success |-> FALSE, notice |-> "none", month_widget |-> FALSE,
     metrics |-> <<>>, sunburst |-> {}, summary |-> {}]

\* A plausible slip: an empty month is reported as zero totals.
empty_month_zero_totals ==
    [BlankView EXCEPT !.notice = "report", !.month_widget = TRUE,
                      !.metrics = <<[totalIncome |-> 0, totalExpense |-> 0, balance |-> 0]>>]

\* Lines 124-125: what the tab shows when no row is of the selected month.
empty_month == [BlankView EXCEPT !.notice = "no_month_data", !.month_widget = TRUE]

\* A plausible slip: the month's rows are assigned back to the frame.
frame_after_filtered(dd, m_df) == m_df

\* The frame the tab leaves behind: line 118 assigned the parsed dates into it,
\* line 122 filters into a new frame.
frame_after(dd, m_df) == dd

\* Lines 114-143: the frame as the tab leaves it, and what the tab shows.
tab2(d, month) ==
    IF d = <<>>
    THEN [df |-> d, view |-> [BlankView EXCEPT !.notice = "no_data"]]
    ELSE IF ~DatesParse(d)
    THEN [df |-> d, view |-> [BlankView EXCEPT !.error = "parse"]]
    ELSE LET dd     == to_datetime(d)
             m_df   == month_filter(dd, month)
             exp_df == SelectSeq(m_df, LAMBDA r : r.Kind = "Expense")
         IN  IF m_df = <<>>
             THEN [df |-> frame_after(dd, m_df), view |-> empty_month]
             ELSE [df |-> frame_after(dd, m_df),
                   view |-> [BlankView EXCEPT !.notice = "report", !.month_widget = TRUE,
                                              !.metrics = <<metrics(m_df)>>,
                                              !.sunburst = sunburst(exp_df),
                                              !.summary = summary(exp_df)]]

(***************************************************************************)
(* The inputs explored.                                                    *)
(***************************************************************************)
\* Date strings, as the sheet holds them.
D20230305 == <<"2", "0", "2", "3", "-", "0", "3", "-", "0", "5">>

D20240301 == <<"2", "0", "2", "4", "-", "0", "3", "-", "0", "1">>

D20240402 == <<"2", "0", "2", "4", "-", "0", "4", "-", "0", "2">>

NotADate == <<"n", "/", "a">>

\* The sheet when the session starts: empty, or one row written earlier, by the
\* application (a row of the year before, a row of another month) or by hand in
\* the spreadsheet (an unknown member, a main-category of the other kind, a date
\* that is no date).
InitialSheets ==
    { <<>>,
      << <<D20230305, "XiQing", "Expense", "Children", "Tuition", 1, "">> >>,
      << <<D20240402, "Kam", "Income", "Other", "Bonus", 1, "gift">> >>,
      << <<D20240301, "Unknown", "Expense", "Household", "Electricity", 1, "">> >>,
      << <<D20240301, "Connie", "Expense", "Salary", "MonthlySalary", 1, "">> >>,
      << <<NotADate, "Kam", "Income", "Salary", "MonthlySalary", 1, "">> >> }

\* The dates picked in the date input.
SampleDates == { [year |-> 2024, month |-> 3, day |-> 10] }

\* The months picked in the month selectbox (of range(1, 13)), and the clock's.
SampleMonths == {3, 4}

\* The members picked under Spec.
SampleMembers == {"Connie", "Kam"}

\* The notes typed.
SampleNotes == {""}

\* The amounts typed under Spec; the number input refuses those below its minimum.
SampleAmounts == -1..MaxAmount

(***************************************************************************)
(* The script runs.                                                        *)
(***************************************************************************)
\* Lines 67-69 succeeded and no button was pressed: tabs 1 and 2 are rendered.
Render(sh, month, f) ==
    /\ form' = f
    /\ selected_month' = month
    /\ LET r == tab2(load_df(sh), month)
       IN  df' = r.df /\ view' = r.view
    /\ io' = [reads |-> 1, appends |-> 0, append |-> "none"]
    /\ UNCHANGED <<sheet, base>>

\* The form is on the page unless the run stopped at line 72.
FormShown == view.error # "connect"

\* The radio at line 79 is switched: the selectboxes below it have new options.
SelectKind(k) ==
    /\ FormShown
    /\ k # form.tx_type
    /\ Render(sheet, selected_month, FreshForm(k, form.member))

\* The member box at line 82 is switched: the main-category box starts afresh
\* when its default index changes, and keeps the choice made otherwise.
SelectMember(m) ==
    /\ FormShown
    /\ m # form.member
    /\ Render(sheet, selected_month,
              IF default_idx(form.tx_type, m) # form.default_idx
              THEN FreshForm(form.tx_type, m)
              ELSE [form EXCEPT !.member = m])

\* A plausible slip: the sub-category chosen before is kept.
SelectMainKeepSub(c) ==
    /\ FormShown
    /\ c \in Range(CategoryKeys(form.tx_type))
    /\ c # form.main_cat
    /\ Render(sheet, selected_month, [form EXCEPT !.main_cat = c])

\* The main-category box at line 90 is switched: the sub-category box at line
\* 91 has new options and shows the first.
SelectMain(c) ==
    /\ FormShown
    /\ c \in Range(CategoryKeys(form.tx_type))
    /\ c # form.main_cat
    /\ Render(sheet, selected_month,
              [form EXCEPT !.main_cat = c, !.sub_cat = CATEGORIES(form.tx_type, c)[1]])

\* The sub-category box at line 91 is switched.
SelectSub(s) ==
    /\ FormShown
    /\ s \in Range(CATEGORIES(form.tx_type, form.main_cat))
    /\ s # form.sub_cat
    /\ Render(sheet, selected_month, [form EXCEPT !.sub_cat = s])

\* The month box at line 120 is switched; it is on the page after line 118.
SelectMonth(m) ==
    /\ view.month_widget
    /\ m \in 1..12
    /\ m # selected_month
    /\ Render(sheet, m, form)

\* Line 92: min_value=0.0, the number input takes no amount below it.
amount_accepted(amount) == amount >= 0

\* Lines 95-106, the button pressed and the row appended: the success message,
\* then st.rerun() runs the script again on the sheet as it is now; that run
\* reads the sheet (rerun_read_ok) or stops at line 72.
SaveOk(date, amount, note, rerun_read_ok) ==
    /\ FormShown
    /\ Len(sheet) < MaxRows
    /\ amount_accepted(amount)
    /\ sheet' = save_entry(sheet, Entry(form, date, amount, note))
    /\ IF rerun_read_ok
       THEN LET r == tab2(load_df(sheet'), selected_month)
            IN  df' = r.df /\ view' = [r.view EXCEPT !.success = TRUE]
       ELSE /\ df' = <<>>
            /\ view' = [BlankView EXCEPT !.error = "connect", !.success = TRUE]
    /\ io' = [reads |-> 2, appends |-> 1, append |-> "ok"]
    /\ UNCHANGED <<base, form, selected_month>>

\* A plausible slip: the failure of the append is caught and the run goes on.
SaveFailSwallowed ==
    /\ FormShown
    /\ LET r == tab2(load_df(sheet), selected_month)
       IN  df' = r.df /\ view' = [r.view EXCEPT !.success = TRUE]
    /\ io' = [reads |-> 2, appends |-> 1, append |-> "raised"]
    /\ UNCHANGED <<sheet, base, form, selected_month>>

\* Lines 95-101, the button pressed and append_row raising, whatever the entry:
\* nothing catches it, the run ends there with the exception on the page; the
\* frame is the one line 69 read.
SaveFail ==
    /\ FormShown
    /\ df' = load_df(sheet)
    /\ view' = [BlankView EXCEPT !.error = "append"]
    /\ io' = [reads |-> 1, appends |-> 1, append |-> "raised"]
    /\ UNCHANGED <<sheet, base, form, selected_month>>

\* Lines 67-72: a run in which get_data or load_df raises: the error message,
\* then st.stop(); no widget is rendered, so none keeps its value.
ConnectFail ==
    /\ view.error # "connect"
    /\ df' = <<>>
    /\ view' = [BlankView EXCEPT !.error = "connect"]
    /\ form' = InitialForm
    /\ io' = [reads |-> 1, appends |-> 0, append |-> "none"]
    /\ UNCHANGED <<sheet, base, selected_month>>

\* The page is loaded anew: a new session, its widgets at their defaults, the
\* month box at the clock's month (lines 119-120).
Reload(current_month) ==
    /\ Render(sheet, current_month, InitialForm)

(***************************************************************************)
(* Spec: sessions over the sampled inputs, the sheet up to MaxRows rows.   *)
(***************************************************************************)
Init ==
    /\ sheet \in InitialSheets
    /\ base = Len(sheet)
    /\ form = InitialForm
    /\ selected_month \in SampleMonths
    /\ LET r == tab2(load_df(sheet), selected_month)
       IN  df = r.df /\ view = r.view
    /\ io = [reads |-> 1, appends |-> 0, append |-> "none"]

Next ==
    \/ \E k \in Range(TX_TYPES) : SelectKind(k)
    \/ \E m \in SampleMembers : SelectMember(m)
    \/ \E m \in SampleMonths : SelectMonth(m)
    \/ \E date \in SampleDates, amount \in SampleAmounts, note \in SampleNotes,
          ok \in BOOLEAN : SaveOk(date, amount, note, ok)
    \/ SaveFail
    \/ ConnectFail
    \/ \E m \in SampleMonths : Reload(m)

Spec == Init /\ [][Next]_vars

(***************************************************************************)
(* SpecForm: one entry made with every choice the form offers, on a sheet  *)
(* one row short of MaxRows.                                               *)
(***************************************************************************)
FormSheet ==
    [i \in 1..(MaxRows - 1) |-> <<D20230305, "Kam", "Expense", "Household", "Electricity", 1, "">>]

\* The amounts typed under SpecForm.
FormAmounts == {-1, MaxAmount}

InitForm ==
    /\ sheet = FormSheet
    /\ base = Len(sheet)
    /\ form = InitialForm
    /\ selected_month = 3
    /\ LET r == tab2(load_df(sheet), selected_month)
       IN  df = r.df /\ view = r.view
    /\ io = [reads |-> 1, appends |-> 0, append |-> "none"]

NextForm ==
    \/ \E k \in Range(TX_TYPES) : SelectKind(k)
    \/ \E m \in Range(MEMBERS) : SelectMember(m)
    \/ \E c \in Range(CategoryKeys(form.tx_type)) : SelectMain(c)
    \/ \E s \in Range(CATEGORIES(form.tx_type, form.main_cat)) : SelectSub(s)
    \/ \E date \in SampleDates, amount \in FormAmounts, note \in SampleNotes :
          SaveOk(date, amount, note, TRUE)

SpecForm == InitForm /\ [][NextForm]_vars

(***************************************************************************)
(* Properties.                                                             *)
(***************************************************************************)
RECURSIVE SumOfGroups(_)
\* The sum of the amounts of a set of breakdown rows.
SumOfGroups(S) ==
    IF S = {} THEN 0
    ELSE LET g == CHOOSE x \in S : TRUE IN g.Amount + SumOfGroups(S \ {g})

\* The last run got to the report tab: the sheet was read and no append raised.
ReportTabRan == view.error \notin {"connect", "append"}

\* The rows of the sheet, as read, whose date string is of the month, whatever the year.
RowsOfMonth(month) ==
    SelectSeq(load_df(sheet),
              LAMBDA r : IsDateString(r.Date.chars) /\ ParseDate(r.Date.chars).month = month)

\* Every date string of the sheet is a date.
SheetDatesParse == \A i \in 1..Len(sheet) : IsDateString(sheet[i][1])

\* The validation rules of a transaction: member, kind, category triple, amount.
RowValid(r) ==
    /\ r.Member \in Range(MEMBERS)
    /\ r.Kind \in Range(TX_TYPES)
    /\ IsValid(r.Kind, r.MainCategory, r.SubCategory)
    /\ r.Amount >= 0

\* C1: in every monthly report the balance is totalIncome - totalExpense, the
\* grouped breakdown has one group for each (mainCategory, subCategory, member)
\* of the month's Expense rows, and the amounts of its groups sum to totalExpense.
C1_SumProperty ==
    view.notice = "report" =>
        LET m       == view.metrics[1]
            exp_df  == SelectSeq(df, LAMBDA r : r.Date.month = selected_month /\ r.Kind = "Expense")
            key(r)  == <<r.MainCategory, r.SubCategory, r.Member>>
        IN  /\ m.balance = m.totalIncome - m.totalExpense
            /\ SumOfGroups(view.summary) = m.totalExpense
            /\ {key(g) : g \in view.summary} = {key(r) : r \in Range(exp_df)}
            /\ Cardinality({key(g) : g \in view.summary}) = Cardinality(view.summary)

\* C1's case: a report with two groups that differ in the member only.
C1_Witness ==
    /\ view.notice = "report"
    /\ view.metrics[1].totalExpense > 1
    /\ \E g, h \in view.summary :
          /\ g.Member # h.Member
          /\ g.MainCategory = h.MainCategory /\ g.SubCategory = h.SubCategory
          /\ g.Amount > 0 /\ h.Amount > 0

\* C2: a row with a valid member, a valid kind and an amount >= 0 becomes a
\* transaction only if its (kind, mainCategory, subCategory) is a triple of the
\* taxonomy; any other triple fails with InvalidCategory.
C2_InvalidCategoryRejected ==
    \A i \in 1..Len(df) :
        (/\ df[i].Member \in Range(MEMBERS)
         /\ df[i].Kind \in Range(TX_TYPES)
         /\ df[i].Amount >= 0)
        => IsValid(df[i].Kind, df[i].MainCategory, df[i].SubCategory)

\* C3: every row the save path has appended to the sheet has seven cells, a
\* member of MEMBERS, a kind of the radio, a triple of the taxonomy and an
\* amount >= 0.
C3_SavedRowsValid ==
    \A i \in (base + 1)..Len(sheet) :
        /\ Len(sheet[i]) = 7
        /\ RowValid(load_df(sheet)[i])

\* C3's case: a saved row whose categories were both chosen away from the defaults.
C3_Witness ==
    /\ Len(sheet) > base
    /\ sheet[Len(sheet)][2] = "XiLang"
    /\ sheet[Len(sheet)][4] = "Transport"
    /\ sheet[Len(sheet)][5] = "Parking"
    /\ view.success

\* C4: a row of the sheet that fails validation is not in the log and in no
\* report, reading it raises nothing, and the valid rows read with it are kept.
C4_InvalidRowsExcluded ==
    ReportTabRan =>
        /\ view.error = "none"
        /\ \A i \in 1..Len(df) : RowValid(df[i])
        /\ \A g \in view.summary : g.Member \in Range(MEMBERS)
        /\ \A i \in 1..Len(sheet) :
              RowValid(load_df(sheet)[i]) /\ IsDateString(sheet[i][1])
              => \E j \in 1..Len(df) : [df[j] EXCEPT !.Date = StrCell(sheet[i][1])] = load_df(sheet)[i]

\* C5: when append_row raises, the run reports no success, the exception is on
\* the page, append_row was called once, and the sheet is not read again nor
\* the report rendered.
C5_FailedAppend ==
    io.append = "raised" =>
        /\ ~view.success
        /\ view.error = "append"
        /\ io.appends = 1
        /\ io.reads = 1
        /\ view.notice = "none" /\ view.metrics = <<>>
        /\ view.sunburst = {} /\ view.summary = {}
        /\ df = load_df(sheet)

\* C5's case: the append raised on a sheet that holds rows.
C5_Witness == io.append = "raised" /\ Len(sheet) > base

\* C6: the default index is a valid index of the main-categories of the kind; it
\* is the index of Children exactly when the kind is Expense and the member one
\* of the two children, and 0 otherwise.
C6_DefaultMain ==
    LET keys  == CategoryKeys(form.tx_type)
        child == form.tx_type = "Expense" /\ form.member \in {"XiQing", "XiLang"}
    IN  /\ form.default_idx \in 0..(Len(keys) - 1)
        /\ child => keys[form.default_idx + 1] = "Children"
        /\ ~child => form.default_idx = 0
        /\ form.default_idx = default_idx(form.tx_type, form.member)
        /\ (keys[form.default_idx + 1] = "Children") <=> child

\* C6's case: a child's expense, the main-category box opening on Children.
C6_Witness ==
    /\ form.tx_type = "Expense" /\ form.member = "XiLang"
    /\ form.default_idx = 2 /\ form.main_cat = "Children"

\* The log is empty, or every date of the log is a date and none is of the
\* selected month, and the report tab ran.
C7_Case ==
    /\ ReportTabRan
    /\ SheetDatesParse
    /\ RowsOfMonth(selected_month) = <<>>

\* C7 as claimed: in that case the report holds zero totals and empty breakdowns.
C7_ZeroTotals ==
    C7_Case =>
        /\ view.error = "none"
        /\ view.metrics = <<[totalIncome |-> 0, totalExpense |-> 0, balance |-> 0]>>
        /\ view.sunburst = {} /\ view.summary = {}

\* C7, amended: in that case the tab shows a notice of no data (of an empty log,
\* or of an empty month), no totals and no breakdowns, and raises nothing.
C7_NoDataNotice ==
    C7_Case =>
        /\ view.error = "none"
        /\ view.notice = (IF sheet = <<>> THEN "no_data" ELSE "no_month_data")
        /\ view.metrics = <<>>
        /\ view.sunburst = {} /\ view.summary = {}

\* C7's case: rows in the log, none of the selected month.
C7_Witness == C7_Case /\ Len(sheet) >= 2 /\ view.notice = "no_month_data"

\* The second run of the report tab, on the frame the first one left, shows the same.
C8_SecondRunSame ==
    LET again == tab2(df, selected_month)
    IN  again.view = [view EXCEPT !.success = FALSE] /\ again.df = df

C9_MonthOnly ==
    (ReportTabRan /\ view.error = "none" /\ sheet # <<>>) =>
        LET rows    == RowsOfMonth(selected_month)
            income  == SelectSeq(rows, LAMBDA r : r.Kind = "Income")
            expense == SelectSeq(rows, LAMBDA r : r.Kind = "Expense")
            key(r)  == <<r.MainCategory, r.SubCategory, r.Member>>
        IN  /\ (view.notice = "report") <=> (rows # <<>>)
            /\ (view.notice = "no_month_data") <=> (rows = <<>>)
            /\ view.notice = "report" =>
                  /\ view.metrics[1].totalIncome = SumAmount(income)
                  /\ view.metrics[1].totalExpense = SumAmount(expense)
                  /\ {key(g) : g \in view.summary} = {key(r) : r \in Range(expense)}
                  /\ {<<g.MainCategory, g.SubCategory>> : g \in view.sunburst}
                        = {<<r.MainCategory, r.SubCategory>> : r \in Range(expense)}

\* C9's case: a report whose expenses are of two years.
C9_Witness ==
    /\ view.notice = "report"
    /\ \E i, j \in 1..Len(df) :
          /\ df[i].Date.month = selected_month /\ df[j].Date.month = selected_month
          /\ df[i].Date.year < df[j].Date.year
          /\ df[i].Kind = "Expense" /\ df[j].Kind = "Expense"
          /\ view.metrics[1].totalExpense >= df[i].Amount + df[j].Amount
          /\ df[i].Amount > 0 /\ df[j].Amount > 0

\* C10: every step leaves the rows of the sheet in place; a run whose append
\* succeeded adds one row of seven cells at the end, every other run leaves the
\* sheet as it is; and a run that read the sheet has every row in its log.
C10_AppendOnly ==
    [][ /\ IsPrefix(sheet, sheet')
        /\ io'.append = "ok" =>
              /\ Len(sheet') = Len(sheet) + 1
              /\ Len(sheet'[Len(sheet')]) = 7
        /\ io'.append # "ok" => sheet' = sheet
        /\ view'.error # "connect" =>
              /\ Len(df') = Len(sheet')
              /\ \A i \in 1..Len(sheet') :
                    /\ [df'[i] EXCEPT !.Date = StrCell(sheet'[i][1])] = load_df(sheet')[i]
                    /\ \/ df'[i].Date = StrCell(sheet'[i][1])
                       \/ /\ IsDateString(sheet'[i][1])
                          /\ df'[i].Date = Timestamp(ParseDate(sheet'[i][1]))
      ]_vars

\* C10's case: two rows saved one after the other, both in the log.
C10_Witness ==
    /\ Len(sheet) >= base + 2
    /\ Len(df) = Len(sheet)
    /\ io.append = "ok"

====
